---- MODULE Spec2Model ----
(***************************************************************************)
(* A model of accounting-js (src/dist/accounting.es.js): unformat,         *)
(* toFixed, formatNumber, formatMoney and formatColumn.                    *)
(*                                                                         *)
(* Strings are sequences of one-character strings.  A JavaScript number is *)
(* an exact signed decimal [nan, neg, int, frac] with frac counted in      *)
(* units of 10^-Scale; the 1e-11 that toFixed adds is carried as a separate*)
(* count of epsilons, each smaller than one unit of frac.  Binary          *)
(* floating-point representation error (below 1e-12 for the magnitudes     *)
(* used here) is not modelled.                                             *)
(***************************************************************************)
EXTENDS Integers, Sequences

VARIABLES hist

vars == <<hist>>

(***************************************************************************)
(* Bounds                                                                  *)
(***************************************************************************)
MaxPrec == 2

MaxList == 2

MaxChain == 3

\* input numbers carry one decimal digit more than the largest precision
Scale == MaxPrec + 1

RECURSIVE Pow10(_)
Pow10(n) == IF n <= 0 THEN 1 ELSE 10 * Pow10(n - 1)

Unit == Pow10(Scale)

(***************************************************************************)
(* Characters and strings                                                  *)
(***************************************************************************)
Digits == <<"0", "1", "2", "3", "4", "5", "6", "7", "8", "9">>

IsDigit(c) == \E i \in 1..10 : Digits[i] = c

DigitVal(c) == (CHOOSE i \in 1..10 : Digits[i] = c) - 1

\* Number.prototype.toString of a non-negative integer
RECURSIVE NatToStr(_)
NatToStr(n) ==
  IF n < 10 THEN <<Digits[n + 1]>>
  ELSE NatToStr(n \div 10) \o <<Digits[(n % 10) + 1]>>

\* the value of a string of decimal digits
RECURSIVE StrToNat(_)
StrToNat(s) ==
  IF s = <<>> THEN 0
  ELSE 10 * StrToNat(SubSeq(s, 1, Len(s) - 1)) + DigitVal(s[Len(s)])

\* the length of the longest prefix of s made of digits
RECURSIVE DigitPrefixLen(_)
DigitPrefixLen(s) ==
  IF s = <<>> \/ ~IsDigit(Head(s)) THEN 0 ELSE 1 + DigitPrefixLen(Tail(s))

\* n written with exactly w digits (zero padded on the left)
RECURSIVE PadDigits(_, _)
PadDigits(n, w) ==
  IF w = 0 THEN <<>> ELSE PadDigits(n \div 10, w - 1) \o <<Digits[(n % 10) + 1]>>

\* String.prototype.indexOf(pat): 0-based index of the first occurrence, or -1
IndexOf(s, pat) ==
  LET hits == {i \in 1..(Len(s) - Len(pat) + 1) : SubSeq(s, i, i + Len(pat) - 1) = pat}
  IN IF hits = {} THEN -1 ELSE (CHOOSE i \in hits : \A j \in hits : i <= j) - 1

\* String.prototype.replace(pat, rep) with a string pattern: first occurrence only
ReplaceFirst(s, pat, rep) ==
  LET i == IndexOf(s, pat)
  IN IF i < 0 THEN s
     ELSE SubSeq(s, 1, i) \o rep \o SubSeq(s, i + Len(pat) + 1, Len(s))

\* new Array(n + 1).join(' ')
RECURSIVE Spaces(_)
Spaces(n) == IF n <= 0 THEN <<>> ELSE <<" ">> \o Spaces(n - 1)

\* String.prototype.split(sep) with a one-character separator
RECURSIVE Split(_, _)
Split(s, sep) ==
  LET i == IndexOf(s, sep)
  IN IF i < 0 THEN <<s>>
     ELSE <<SubSeq(s, 1, i)>> \o Split(SubSeq(s, i + Len(sep) + 1, Len(s)), sep)

(***************************************************************************)
(* Numbers                                                                 *)
(***************************************************************************)
Num(neg, int, frac) == [nan |-> FALSE, neg |-> neg, int |-> int, frac |-> frac]

NaN == [nan |-> TRUE, neg |-> FALSE, int |-> 0, frac |-> 0]

IsZero(x) == ~x.nan /\ x.int = 0 /\ x.frac = 0

\* x > 0 and x < 0 (both false for NaN, 0 and -0)
GtZero(x) == ~x.nan /\ ~x.neg /\ ~IsZero(x)

LtZero(x) == ~x.nan /\ x.neg /\ ~IsZero(x)

\* Math.abs
MathAbs(x) == [x EXCEPT !.neg = FALSE]

\* x * (negative ? -1 : 1)
Negate(x, negative) == IF negative THEN [x EXCEPT !.neg = ~x.neg] ELSE x

(***************************************************************************)
(* settings (the library's default configuration)                          *)
(***************************************************************************)
\* a property that may be undefined
Undefined == [def |-> FALSE, s |-> <<>>]

Def(s) == [def |-> TRUE, s |-> s]

\* a format template given as a string: it has no pos, neg or zero property
Str(s) ==
  [isString |-> TRUE, str |-> s, pos |-> Undefined, neg |-> Undefined, zero |-> Undefined]

\* a format given as an object with the properties pos, neg and zero
Obj(pos, neg, zero) ==
  [isString |-> FALSE, str |-> <<>>, pos |-> pos, neg |-> neg, zero |-> zero]

settings ==
  [symbol |-> <<"$">>,
   format |-> Str(<<"%", "s", "%", "v">>),
   decimal |-> <<".">>,
   thousand |-> <<",">>,
   precision |-> 2,
   grouping |-> 3,
   stripZeros |-> FALSE,
   fallback |-> Num(FALSE, 0, 0),
   round |-> 0]

\* objectAssign({}, settings, opts)
objectAssign(base, opts) ==
  [k \in (DOMAIN base) \cup (DOMAIN opts) |->
     IF k \in DOMAIN opts THEN opts[k] ELSE base[k]]

(***************************************************************************)
(* toFixed                                                                 *)
(***************************************************************************)
\* Math.round(Math.abs(val)) of an integer precision
checkPrecision(val, base) == IF val < 0 THEN -val ELSE val

\* value + 1e-11: the sum keeps the decimal and counts the epsilon apart
PlusEpsilon(value) ==
  [neg |-> value.neg, int |-> value.int, frac |-> value.frac, eps |-> 1]

\* q * power
TimesPower(q, power) ==
  LET f == q.frac * power
  IN [neg |-> q.neg, int |-> q.int * power + f \div Unit, frac |-> f % Unit,
      eps |-> q.eps * power]

\* q as whole + part/Unit + eps*1e-11 with whole an integer, 0 <= part < Unit
\* and 0 <= eps*1e-11 < 1/Unit
Normal(q) ==
  IF ~q.neg THEN [whole |-> q.int, part |-> q.frac, eps |-> q.eps]
  ELSE IF q.frac = 0 THEN [whole |-> -q.int, part |-> 0, eps |-> q.eps]
  ELSE [whole |-> -q.int - 1, part |-> Unit - q.frac, eps |-> q.eps]

MathCeil(q) ==
  LET n == Normal(q)
  IN IF n.part = 0 /\ n.eps = 0 THEN n.whole ELSE n.whole + 1

MathFloor(q) == Normal(q).whole

\* Math.round: floor(q + 0.5)
MathRound(q) ==
  LET n == Normal(q)
  IN IF 2 * n.part >= Unit THEN n.whole + 1 ELSE n.whole

\* (n / power).toFixed(precision) for an integer n and power = 10^precision
NativeToFixed(n, power, precision) ==
  LET a == IF n < 0 THEN -n ELSE n
  IN (IF n < 0 THEN <<"-">> ELSE <<>>)
     \o NatToStr(a \div power)
     \o (IF precision > 0 THEN <<".">> \o PadDigits(a % power, precision) ELSE <<>>)

toFixed(value, precision, round) ==
  LET p == checkPrecision(precision, settings.precision)
      power == Pow10(p)
      scaled == TimesPower(PlusEpsilon(value), power)
      rounded == IF round > 0 THEN MathCeil(scaled)
                 ELSE IF round < 0 THEN MathFloor(scaled)
                 ELSE MathRound(scaled)
  IN NativeToFixed(rounded, power, p)

(***************************************************************************)
(* Values passed to and returned by the public functions                   *)
(***************************************************************************)
NumV(n) == [t |-> "number", n |-> n, s |-> <<>>, a |-> <<>>]

StrV(s) == [t |-> "string", n |-> NaN, s |-> s, a |-> <<>>]

ArrV(a) == [t |-> "array", n |-> NaN, s |-> <<>>, a |-> a]

TypeError == [t |-> "TypeError", n |-> NaN, s |-> <<>>, a |-> <<>>]

\* the array Array.prototype.map returns, given the results r of the callback;
\* a TypeError thrown by the callback propagates
Mapped(r) ==
  IF \E i \in 1..Len(r) : r[i].t = "TypeError" THEN TypeError ELSE ArrV(r)

(***************************************************************************)
(* unformat                                                                *)
(***************************************************************************)
\* replace(/[^0-9-(-)-<decimal>]/g, ''): keep digits, '-', '(', ')' and the
\* characters of decimal
KeptChar(c, decimal) ==
  \/ IsDigit(c)
  \/ c \in {"-", "(", ")"}
  \/ \E i \in 1..Len(decimal) : decimal[i] = c

StripCruft(s, decimal) == SelectSeq(s, LAMBDA c : KeptChar(c, decimal))

\* whether inner matches [-]*\d*[^)]?\d+ as a whole
MatchesBracketBody(inner) ==
  \E m \in 0..Len(inner), d \in 0..Len(inner), o \in 0..1, e \in 1..Len(inner) :
    /\ m + d + o + e = Len(inner)
    /\ \A i \in 1..m : inner[i] = "-"
    /\ \A i \in (m + 1)..(m + d) : IsDigit(inner[i])
    /\ o = 1 => inner[m + d + 1] # ")"
    /\ \A i \in (m + d + o + 1)..Len(inner) : IsDigit(inner[i])

\* the index of the first ")" of s after position i, or 0
NextClose(s, i) ==
  LET js == {j \in (i + 1)..Len(s) : s[j] = ")"}
  IN IF js = {} THEN 0 ELSE CHOOSE j \in js : \A k \in js : j <= k

\* ReplaceBracketed with the replacement '$1' in place of '-$1'
RECURSIVE ReplaceBracketedUnsigned(_)
ReplaceBracketedUnsigned(s) ==
  LET starts == {i \in 1..Len(s) :
                   /\ s[i] = "("
                   /\ NextClose(s, i) > 0
                   /\ MatchesBracketBody(SubSeq(s, i + 1, NextClose(s, i) - 1))}
  IN IF starts = {} THEN s
     ELSE LET i == CHOOSE i \in starts : \A k \in starts : i <= k
              j == NextClose(s, i)
          IN SubSeq(s, 1, i - 1) \o SubSeq(s, i + 1, j - 1)
             \o ReplaceBracketedUnsigned(SubSeq(s, j + 1, Len(s)))

\* replace(/\(([-]*\d*[^)]?\d+)\)/g, '-$1')
RECURSIVE ReplaceBracketed(_)
ReplaceBracketed(s) ==
  LET starts == {i \in 1..Len(s) :
                   /\ s[i] = "("
                   /\ NextClose(s, i) > 0
                   /\ MatchesBracketBody(SubSeq(s, i + 1, NextClose(s, i) - 1))}
  IN IF starts = {} THEN s
     ELSE LET i == CHOOSE i \in starts : \A k \in starts : i <= k
              j == NextClose(s, i)
          IN SubSeq(s, 1, i - 1) \o <<"-">> \o SubSeq(s, i + 1, j - 1)
             \o ReplaceBracketed(SubSeq(s, j + 1, Len(s)))

\* replace(/\((.*)\)/, ''): from the first "(" with a ")" after it up to the
\* last ")"
RemoveBrackets(s) ==
  LET opens == {i \in 1..Len(s) : s[i] = "(" /\ NextClose(s, i) > 0}
  IN IF opens = {} THEN s
     ELSE LET i == CHOOSE i \in opens : \A k \in opens : i <= k
              j == CHOOSE j \in 1..Len(s) :
                     s[j] = ")" /\ \A k \in (j + 1)..Len(s) : s[k] # ")"
          IN SubSeq(s, 1, i - 1) \o SubSeq(s, j + 1, Len(s))

\* the fraction digits ds as a count of units of 10^-Scale (digits beyond
\* Scale are dropped)
FracVal(ds) ==
  IF Len(ds) >= Scale THEN StrToNat(SubSeq(ds, 1, Scale))
  ELSE StrToNat(ds) * Pow10(Scale - Len(ds))

\* parseFloat of a string without sign, whitespace or letters: the longest
\* prefix of the form digits, digits.digits or .digits
parseFloat(s) ==
  LET a == DigitPrefixLen(s)
      rest == SubSeq(s, a + 1, Len(s))
      b == IF rest # <<>> /\ Head(rest) = "." THEN DigitPrefixLen(Tail(rest)) ELSE 0
  IN IF a = 0 /\ b = 0 THEN NaN
     ELSE Num(FALSE, StrToNat(SubSeq(s, 1, a)), FracVal(SubSeq(s, a + 2, a + 1 + b)))

\* (str.match(/-/g) || 2).length % 2, as a truth value: the number of minus
\* signs is odd (with no match, (2).length is undefined and undefined % 2 is
\* NaN, which is falsy)
OddMinusCount(s) == Len(SelectSeq(s, LAMBDA c : c = "-")) % 2 = 1

unformatString(s, decimal, fallback) ==
  LET unformattedValueString ==
        RemoveBrackets(ReplaceBracketed(
          ReplaceFirst(StripCruft(s, decimal), decimal, <<".">>)))
      negative == OddMinusCount(unformattedValueString)
      absUnformatted ==
        parseFloat(SelectSeq(unformattedValueString, LAMBDA c : c # "-"))
      unformatted == Negate(absUnformatted, negative)
  IN IF ~unformatted.nan THEN unformatted ELSE fallback

RECURSIVE unformat(_, _, _)
unformat(value, decimal, fallback) ==
  IF value.t = "array"
    THEN ArrV([i \in 1..Len(value.a) |-> unformat(value.a[i], decimal, fallback)])
  ELSE IF value.t = "number" THEN value
  ELSE NumV(unformatString(value.s, decimal, fallback))

(***************************************************************************)
(* formatNumber                                                            *)
(***************************************************************************)
\* replace(/0+$/, '')
RECURSIVE StripTrailingZeros(_)
StripTrailingZeros(s) ==
  IF s # <<>> /\ s[Len(s)] = "0" THEN StripTrailingZeros(SubSeq(s, 1, Len(s) - 1))
  ELSE s

\* parts[1] is undefined when str does not contain decimal, and
\* undefined.replace throws
stripInsignificantZeros(str, decimal) ==
  LET parts == Split(str, decimal)
  IN IF Len(parts) < 2 THEN TypeError
     ELSE LET integerPart == parts[1]
              decimalPart == StripTrailingZeros(parts[2])
          IN IF Len(decimalPart) > 0 THEN StrV(integerPart \o decimal \o decimalPart)
             ELSE StrV(integerPart)

\* parseInt(str, 10) + '': the leading digits, read and written again
parseIntToStr(str) == NatToStr(StrToNat(SubSeq(str, 1, DigitPrefixLen(str))))

\* GroupThousands without the lookahead (?=\d)
RECURSIVE GroupThousandsNoLookahead(_, _)
GroupThousandsNoLookahead(s, thousand) ==
  IF s = <<>> THEN <<>>
  ELSE IF Len(s) >= 3 /\ \A i \in 1..3 : IsDigit(s[i])
    THEN SubSeq(s, 1, 3) \o thousand
         \o GroupThousandsNoLookahead(SubSeq(s, 4, Len(s)), thousand)
  ELSE <<Head(s)>> \o GroupThousandsNoLookahead(Tail(s), thousand)

\* replace(/(\d{3})(?=\d)/g, '$1' + thousand)
RECURSIVE GroupThousands(_, _)
GroupThousands(s, thousand) ==
  IF s = <<>> THEN <<>>
  ELSE IF Len(s) >= 4 /\ \A i \in 1..4 : IsDigit(s[i])
    THEN SubSeq(s, 1, 3) \o thousand \o GroupThousands(SubSeq(s, 4, Len(s)), thousand)
  ELSE <<Head(s)>> \o GroupThousands(Tail(s), thousand)

\* the round argument left out of the second toFixed call of formatNumber:
\* undefined > 0 and undefined < 0 are both false, which selects Math.round
\* as 0 does
RoundNotPassed == 0

formatNumberScalar(number, options) ==
  LET opts == objectAssign(settings, options)
      negative == IF LtZero(number) THEN <<"-">> ELSE <<>>
      base == parseIntToStr(toFixed(MathAbs(number), opts.precision, opts.round))
      mod == IF Len(base) > 3 THEN Len(base) % 3 ELSE 0
      formatted ==
        negative
        \o (IF mod # 0 THEN SubSeq(base, 1, mod) \o opts.thousand ELSE <<>>)
        \o GroupThousands(SubSeq(base, mod + 1, Len(base)), opts.thousand)
        \o (IF opts.precision > 0
              THEN opts.decimal
                   \o Split(toFixed(MathAbs(number), opts.precision, RoundNotPassed),
                            <<".">>)[2]
              ELSE <<>>)
  IN IF opts.stripZeros THEN stripInsignificantZeros(formatted, opts.decimal)
     ELSE StrV(formatted)

RECURSIVE formatNumber(_, _)
formatNumber(number, options) ==
  IF number.t = "array"
    THEN Mapped([i \in 1..Len(number.a) |-> formatNumber(number.a[i], options)])
  ELSE formatNumberScalar(number.n, options)

(***************************************************************************)
(* formatMoney                                                             *)
(***************************************************************************)
PctS == <<"%", "s">>

PctV == <<"%", "v">>

\* checkCurrencyFormat with the minus sign left out of the neg template
checkCurrencyFormatUnsignedNeg(format) ==
  IF format.isString /\ IndexOf(format.str, PctV) >= 0
    THEN Obj(Def(format.str), Def(format.str), Def(format.str))
  ELSE format

checkCurrencyFormat(format) ==
  IF format.isString /\ IndexOf(format.str, PctV) >= 0
    THEN Obj(Def(format.str),
             Def(ReplaceFirst(ReplaceFirst(format.str, <<"-">>, <<>>),
                              PctV, <<"-">> \o PctV)),
             Def(format.str))
  ELSE format

\* the template for the sign of val: formats.pos, formats.neg or formats.zero
ChooseFormat(formats, val) ==
  IF GtZero(val) THEN formats.pos
  ELSE IF LtZero(val) THEN formats.neg
  ELSE formats.zero

\* useFormat.replace('%s', opts.symbol).replace('%v', formatNumber(Math.abs(val), opts));
\* calling replace on an undefined useFormat throws
ApplyFormat(useFormat, val, opts) ==
  IF ~useFormat.def THEN TypeError
  ELSE LET v == formatNumberScalar(MathAbs(val), opts)
       IN IF v.t = "TypeError" THEN TypeError
          ELSE StrV(ReplaceFirst(ReplaceFirst(useFormat.s, PctS, opts.symbol), PctV, v.s))

formatMoneyScalar(amount, options) ==
  LET opts == objectAssign(settings, options)
      formats == checkCurrencyFormat(opts.format)
  IN ApplyFormat(ChooseFormat(formats, amount), amount, opts)

RECURSIVE formatMoney(_, _)
formatMoney(amount, options) ==
  IF amount.t = "array"
    THEN Mapped([i \in 1..Len(amount.a) |-> formatMoney(amount.a[i], options)])
  ELSE formatMoneyScalar(amount.n, options)

(***************************************************************************)
(* formatColumn                                                            *)
(***************************************************************************)
NullV == [t |-> "null", n |-> NaN, s |-> <<>>, a |-> <<>>]

\* the largest of the lengths of the strings of formatted (0 when none)
MaxLength(formatted) ==
  LET ls == {Len(formatted[i].s) : i \in {k \in 1..Len(formatted) : formatted[k].t = "string"}}
  IN IF ls = {} THEN 0 ELSE CHOOSE m \in ls : \A l \in ls : l <= m

\* the second pass of formatColumn over one element
PadValue(val, maxLength, padAfterSymbol, symbol) ==
  IF val.t = "string" /\ Len(val.s) < maxLength
    THEN IF padAfterSymbol
           THEN StrV(ReplaceFirst(val.s, symbol, symbol \o Spaces(maxLength - Len(val.s))))
         ELSE StrV(Spaces(maxLength - Len(val.s)) \o val.s)
  ELSE val

RECURSIVE formatColumn(_, _)
formatColumn(list, options) ==
  IF list.t = "null" THEN ArrV(<<>>)
  ELSE
    LET opts == objectAssign(settings, options)
        formats == checkCurrencyFormat(opts.format)
    IN IF ~formats.pos.def THEN TypeError
       ELSE
         LET padAfterSymbol == IndexOf(formats.pos.s, PctS) < IndexOf(formats.pos.s, PctV)
             formatted ==
               Mapped([i \in 1..Len(list.a) |->
                         IF list.a[i].t = "array" THEN formatColumn(list.a[i], opts)
                         ELSE LET v == unformat(list.a[i], opts.decimal,
                                                settings.fallback).n
                              IN ApplyFormat(ChooseFormat(formats, v), v, opts)])
         IN IF formatted.t = "TypeError" THEN TypeError
            ELSE ArrV([i \in 1..Len(formatted.a) |->
                         PadValue(formatted.a[i], MaxLength(formatted.a),
                                  padAfterSymbol, opts.symbol)])

(***************************************************************************)
(* The inputs the calls are made with                                      *)
(***************************************************************************)
Ints == {0, 1, 12, 999, 1000, 123456, 1234567}

\* .000 .001 .005 .100 .500 .615 .990 .995 .999 (for Scale = 3)
Fracs ==
  {0, 1, Unit \div 200, Unit \div 10, Unit \div 2, (615 * Unit) \div 1000,
   Unit - Unit \div 100, Unit - Unit \div 200, Unit - 1}

Nums == {Num(neg, i, f) : neg \in BOOLEAN, i \in Ints, f \in Fracs}

Precisions == 0..MaxPrec

Rounds == {-1, 0, 1}

\* an options argument that sets nothing
NoOpts == [k \in {} |-> 0]

\* arrays of at most MaxList numbers
SmallNums == {Num(FALSE, 1, 0), Num(TRUE, 1234, Unit \div 2), Num(FALSE, 0, 0)}

Arrays == UNION {[1..n -> {NumV(x) : x \in SmallNums}] : n \in 0..MaxList}

NumberOpts ==
  {NoOpts}
  \cup [precision : Precisions, round : Rounds, stripZeros : BOOLEAN,
        thousand : {<<",">>, <<" ">>, <<>>}]

Formats ==
  {Str(<<"%", "s", "%", "v">>),
   Str(<<"%", "s", " ", "%", "v">>),
   Str(<<"%", "v", " ", "%", "s">>),
   Str(<<"%", "v">>),
   Str(<<"%", "s">>),
   Obj(Def(<<"%", "s", "%", "v">>), Undefined, Undefined),
   Obj(Def(<<"%", "s", "%", "v">>), Def(<<"%", "s", "(", "%", "v", ")">>),
       Def(<<"%", "s", "-", "-">>))}

MoneyOpts == {NoOpts} \cup [format : Formats, precision : Precisions, round : Rounds]

\* number literals: digits, optionally followed by a decimal part
Lit(i, fd) == NatToStr(i) \o (IF fd = <<>> THEN <<>> ELSE <<".">> \o fd)

LitInts == {0, 5, 100, 1234}

LitFracs == {<<>>, <<"5">>, <<"9", "9">>, <<"0", "5">>}

Wrappers == {"N", "-N", "--N", "(N)", "-(N)", "(-N)", "$ (N)", "$N USD"}

Wrap(w, n) ==
  CASE w = "N" -> n
    [] w = "-N" -> <<"-">> \o n
    [] w = "--N" -> <<"-", "-">> \o n
    [] w = "(N)" -> <<"(">> \o n \o <<")">>
    [] w = "-(N)" -> <<"-", "(">> \o n \o <<")">>
    [] w = "(-N)" -> <<"(", "-">> \o n \o <<")">>
    [] w = "$ (N)" -> <<"$", " ", "(">> \o n \o <<")">>
    [] w = "$N USD" -> <<"$">> \o n \o <<" ", "U", "S", "D">>

OddStrings ==
  {<<>>, <<"a", "b", "c">>, <<"(", "a", "b", "c", ")">>, <<"1", ".", "2", ".", "3">>,
   <<"(", "(", "5", ")">>, <<"(", ")">>, <<"5", ")", "(">>, <<"1", ",", "2", "3", "4", ".", "5">>,
   <<"1", "2", "(", "3", "4", ")", "5">>, <<"(", "1", ")", "(", "2", ")">>, <<".">>}

UnformatStrings ==
  {Wrap(w, Lit(i, fd)) : w \in Wrappers, i \in LitInts, fd \in LitFracs} \cup OddStrings

UnformatOpts == [decimal : {<<".">>, <<",">>}, fallback : {Num(FALSE, 0, 0), Num(TRUE, 1, 0)}]

\* column elements: numbers, numeric strings and nested lists
ColumnScalars ==
  {NumV(Num(FALSE, 1, 0)), NumV(Num(TRUE, 1234, Unit \div 2)), NumV(Num(FALSE, 0, 0)),
   NumV(Num(FALSE, 1234567, Unit - 1)),
   StrV(<<"1", "0", "0", "0">>), StrV(<<"(", "5", ".", "5", ")">>)}

ColumnElems ==
  ColumnScalars
  \cup {ArrV(<<NumV(Num(FALSE, 1, 0)), NumV(Num(TRUE, 1000, 0))>>)}

Columns ==
  {NullV} \cup {ArrV(a) : a \in UNION {[1..n -> ColumnElems] : n \in 0..MaxList}}

ColumnOpts == {NoOpts} \cup [format : Formats, symbol : {<<"$">>, <<"G", "B", "P", " ">>}]

(***************************************************************************)
(* The calls: hist holds the last call, preceded by the calls whose result *)
(* it was made with.  The functions are pure and never write settings, so  *)
(* a behaviour follows one such pipeline of calls from the start.          *)
(***************************************************************************)
Call(fn, arg, opts, ret) == [fn |-> fn, arg |-> arg, opts |-> opts, ret |-> ret]

Last == hist[Len(hist)]

Init == hist = <<>>

CallToFixed ==
  /\ hist = <<>>
  /\ \E value \in Nums, precision \in Precisions, round \in Rounds :
       hist' = <<Call("toFixed", NumV(value), [precision |-> precision, round |-> round],
                      StrV(toFixed(value, precision, round)))>>

CallUnformat ==
  /\ hist = <<>>
  /\ \E s \in UnformatStrings, o \in UnformatOpts :
       hist' = <<Call("unformat", StrV(s), o, unformat(StrV(s), o.decimal, o.fallback))>>

CallUnformatArray ==
  /\ hist = <<>>
  /\ \E a \in Arrays :
       hist' = <<Call("unformat", ArrV(a), NoOpts,
                      unformat(ArrV(a), settings.decimal, settings.fallback))>>

\* unformat(s) of the string that formatNumber or formatMoney just returned
CallUnformatResult ==
  /\ hist # <<>>
  /\ Len(hist) < MaxChain
  /\ Last.fn \in {"formatNumber", "formatMoney"}
  /\ Last.ret.t = "string"
  /\ hist' = Append(hist, Call("unformat", Last.ret, NoOpts,
                                unformat(Last.ret, settings.decimal, settings.fallback)))

CallFormatNumber ==
  /\ hist = <<>>
  /\ \E number \in {NumV(x) : x \in Nums} \cup {ArrV(a) : a \in Arrays}, o \in NumberOpts :
       hist' = <<Call("formatNumber", number, o, formatNumber(number, o))>>

CallFormatMoney ==
  /\ hist = <<>>
  /\ \E amount \in {NumV(x) : x \in Nums} \cup {ArrV(a) : a \in Arrays}, o \in MoneyOpts :
       hist' = <<Call("formatMoney", amount, o, formatMoney(amount, o))>>

\* the number unformat just returned, formatted with the options of the call
\* that produced the string
CallFormatAgain ==
  /\ Len(hist) >= 2
  /\ Len(hist) < MaxChain
  /\ Last.fn = "unformat"
  /\ LET first == hist[Len(hist) - 1]
     IN hist' = Append(hist,
                       Call(first.fn, Last.ret, first.opts,
                            IF first.fn = "formatNumber"
                              THEN formatNumber(Last.ret, first.opts)
                            ELSE formatMoney(Last.ret, first.opts)))

CallFormatColumn ==
  /\ hist = <<>>
  /\ \E list \in Columns, o \in ColumnOpts :
       hist' = <<Call("formatColumn", list, o, formatColumn(list, o))>>

Next ==
  \/ CallToFixed
  \/ CallUnformat
  \/ CallUnformatArray
  \/ CallUnformatResult
  \/ CallFormatNumber
  \/ CallFormatMoney
  \/ CallFormatAgain
  \/ CallFormatColumn

Spec == Init /\ [][Next]_vars

(***************************************************************************)
(* Definitions used to state the properties                                *)
(***************************************************************************)
\* equality of numbers as values (0 and -0 are equal)
NumEq(a, b) == (IsZero(a) /\ IsZero(b)) \/ a = b

Abs(n) == IF n < 0 THEN -n ELSE n

\* |a - b| < tol/Unit
Within(a, b, tol) ==
  /\ ~a.nan /\ ~b.nan
  /\ IF a.neg = b.neg
       THEN /\ Abs(a.int - b.int) <= 1
            /\ Abs((a.int - b.int) * Unit + a.frac - b.frac) < tol
     ELSE a.int = 0 /\ b.int = 0 /\ a.frac + b.frac < tol

\* the options in force for a call
Merged(call) == objectAssign(settings, call.opts)

IsScalarCall(call, fn) == call.fn = fn /\ call.arg.t = "number"

\* C1: unformat(formatMoney(x)) under the default configuration
RoundTrip ==
  /\ Len(hist) >= 2
  /\ IsScalarCall(hist[1], "formatMoney")
  /\ Merged(hist[1]) = settings
  /\ hist[2].fn = "unformat"

\* C1: under the default configuration unformat(formatMoney(x)) differs from
\* x by less than 10^-precision and, when it is not zero, has the sign of x
C1_RoundTripWithinPrecision ==
  RoundTrip =>
    LET x == hist[1].arg.n
        u == hist[2].ret.n
    IN /\ hist[2].ret.t = "number"
       /\ Within(u, x, Pow10(Scale - settings.precision))
       /\ ~IsZero(u) => u.neg = x.neg

\* -1234567.995 is formatted as $-1,234,568.00 and read back as -1234568
C1_Witness ==
  /\ RoundTrip
  /\ hist[1].arg.n = Num(TRUE, 1234567, Unit - Unit \div 200)
  /\ hist[2].ret.n = Num(TRUE, 1234568, 0)

\* a fresh unformat call of a string with the default decimal separator
UnformatDefault ==
  /\ Len(hist) = 1
  /\ hist[1].fn = "unformat"
  /\ hist[1].arg.t = "string"
  /\ hist[1].opts.decimal = settings.decimal

\* the result of the call is the number sign (i + 0.fd) whenever its argument
\* is the literal i.fd wrapped as w
UnformatGives(w, neg) ==
  \A i \in LitInts, fd \in LitFracs :
    hist[1].arg.s = Wrap(w, Lit(i, fd))
      => hist[1].ret.t = "number" /\ NumEq(hist[1].ret.n, Num(neg, i, FracVal(fd)))

\* C3 as stated: unformat('(N)') = -N, unformat('--N') = N and
\* unformat('-(N)') = -N
C3_BracketsAndMinusAsStated ==
  UnformatDefault =>
    /\ UnformatGives("(N)", TRUE)
    /\ UnformatGives("--N", FALSE)
    /\ UnformatGives("-(N)", TRUE)

\* C3 amended: unformat('(N)') = -N, unformat('--N') = N and
\* unformat('-(N)') = N, the minus sign and the brackets cancelling
C3_BracketsAndMinus ==
  UnformatDefault =>
    /\ UnformatGives("(N)", TRUE)
    /\ UnformatGives("--N", FALSE)
    /\ UnformatGives("-(N)", FALSE)

\* unformat('-(100)') returned 100
C3_Witness ==
  /\ UnformatDefault
  /\ hist[1].arg.s = <<"-", "(", "1", "0", "0", ")">>
  /\ hist[1].ret.n = Num(FALSE, 100, 0)

\* a formatNumber call of one number that returned a string
NumberFormatted ==
  /\ hist # <<>>
  /\ IsScalarCall(Last, "formatNumber")
  /\ Last.ret.t = "string"

\* the integer portion of a formatNumber result: after the sign, before the
\* decimal separator
IntegerPortion(call) ==
  LET o == Merged(call)
      body == IF call.ret.s # <<>> /\ Head(call.ret.s) = "-" THEN Tail(call.ret.s)
              ELSE call.ret.s
  IN IF IndexOf(body, o.decimal) < 0 THEN body
     ELSE SubSeq(body, 1, IndexOf(body, o.decimal))

\* the digits of the rounded integer part of the number of a formatNumber call
BaseDigits(call) ==
  LET o == Merged(call)
  IN parseIntToStr(toFixed(MathAbs(call.arg.n), o.precision, o.round))

TruncAt(m, p) == [m EXCEPT !.frac = @ - (@ % Pow10(Scale - p))]

StepUp(m, p) ==
  IF m.frac + Pow10(Scale - p) >= Unit
    THEN [m EXCEPT !.int = @ + 1, !.frac = m.frac + Pow10(Scale - p) - Unit]
  ELSE [m EXCEPT !.frac = @ + Pow10(Scale - p)]

ExactAt(v, p) == v.frac % Pow10(Scale - p) = 0

\* the smallest multiple of 10^-p that is >= v
CeilAt(v, p) ==
  IF ExactAt(v, p) THEN v
  ELSE IF v.neg THEN TruncAt(v, p)
  ELSE StepUp(TruncAt(v, p), p)

\* the largest multiple of 10^-p that is <= v
FloorAt(v, p) ==
  IF ExactAt(v, p) THEN v
  ELSE IF v.neg THEN StepUp(TruncAt(v, p), p)
  ELSE TruncAt(v, p)

\* the multiple of 10^-p nearest to v, a tie going to the greater one
NearestAt(v, p) ==
  LET r == 2 * (v.frac % Pow10(Scale - p))
  IN IF (~v.neg /\ r >= Pow10(Scale - p)) \/ (v.neg /\ r > Pow10(Scale - p))
       THEN StepUp(TruncAt(v, p), p)
     ELSE TruncAt(v, p)

\* whether s is [-]digits with exactly p fractional digits
IsFixed(s, p) ==
  LET body == IF s # <<>> /\ Head(s) = "-" THEN Tail(s) ELSE s
      parts == Split(body, <<".">>)
  IN /\ Len(parts) = (IF p > 0 THEN 2 ELSE 1)
     /\ parts[1] # <<>>
     /\ \A i \in 1..Len(parts) : \A k \in 1..Len(parts[i]) : IsDigit(parts[i][k])
     /\ p > 0 => Len(parts[2]) = p

\* the number a fixed-point string denotes
FixedValue(s) ==
  LET neg == s # <<>> /\ Head(s) = "-"
      parts == Split(IF neg THEN Tail(s) ELSE s, <<".">>)
  IN Num(neg, StrToNat(parts[1]), IF Len(parts) > 1 THEN FracVal(parts[2]) ELSE 0)

\* C7: toFixed(v, p, round) has exactly p fractional digits and denotes the
\* ceiling of v at p decimals when round > 0, the floor when round < 0 and
\* the nearest multiple (half up) when round = 0
C7_ToFixedRoundingDirection ==
  (hist # <<>> /\ Last.fn = "toFixed") =>
    LET v == Last.arg.n
        p == Last.opts.precision
        round == Last.opts.round
    IN /\ IsFixed(Last.ret.s, p)
       /\ NumEq(FixedValue(Last.ret.s),
                IF round > 0 THEN CeilAt(v, p)
                ELSE IF round < 0 THEN FloorAt(v, p)
                ELSE NearestAt(v, p))

\* the string str with the trailing zeros of its fractional part removed, and
\* the decimal separator too when no fractional digit remains
WithoutInsignificantZeros(str, decimal) ==
  LET i == IndexOf(str, decimal)
  IN IF i < 0 THEN str
     ELSE LET f == StripTrailingZeros(SubSeq(str, i + 2, Len(str)))
          IN SubSeq(str, 1, i) \o (IF f = <<>> THEN <<>> ELSE decimal \o f)

\* C8: with stripZeros set formatNumber returns, for every precision p >= 0,
\* the non-stripped output without the trailing zeros of its fractional part
C8_StripZeros ==
  (hist # <<>> /\ IsScalarCall(Last, "formatNumber") /\ Merged(Last).stripZeros) =>
    /\ Last.ret.t = "string"
    /\ Last.ret.s =
         WithoutInsignificantZeros(
           formatNumberScalar(Last.arg.n, [Merged(Last) EXCEPT !.stripZeros = FALSE]).s,
           Merged(Last).decimal)

\* C9: with precision p > 0 and an empty thousands separator formatNumber
\* returns the sign followed by toFixed(|x|, p, round)
C9_OneRoundingForBothParts ==
  (/\ NumberFormatted
   /\ Merged(Last).precision > 0
   /\ Merged(Last).thousand = <<>>
   /\ ~Merged(Last).stripZeros) =>
    Last.ret.s =
      (IF LtZero(Last.arg.n) THEN <<"-">> ELSE <<>>)
      \o toFixed(MathAbs(Last.arg.n), Merged(Last).precision, Merged(Last).round)

\* a format/unformat/format pipeline of one number under options that set
\* precision and round only
FormatUnformatFormat ==
  /\ Len(hist) >= 3
  /\ hist[1].arg.t = "number"
  /\ hist[1].fn \in {"formatMoney", "formatNumber"}
  /\ [Merged(hist[1]) EXCEPT !.precision = settings.precision, !.round = settings.round]
       = settings
  /\ hist[2].fn = "unformat"
  /\ hist[3].fn = hist[1].fn

\* C6: formatMoney(unformat(formatMoney(x, o)), o) is the string
\* formatMoney(x, o), and likewise for formatNumber
C6_FormatIdempotent == FormatUnformatFormat => hist[3].ret = hist[1].ret

\* a single-string format that contains %v
HasValuePlaceholder(format) == format.isString /\ IndexOf(format.str, PctV) >= 0

\* the unpadded currency string of a column element
Unpadded(val, call) ==
  formatMoneyScalar(unformat(val, Merged(call).decimal, settings.fallback).n, call.opts)

\* C2: with a template that contains %v every string of the list formatColumn
\* returns has the length of the longest unpadded currency string of the list
C2_ColumnEqualWidth ==
  (/\ hist # <<>>
   /\ Last.fn = "formatColumn"
   /\ Last.arg.t = "array"
   /\ HasValuePlaceholder(Merged(Last).format)) =>
    /\ Last.ret.t = "array"
    /\ Len(Last.ret.a) = Len(Last.arg.a)
    /\ \A i \in 1..Len(Last.ret.a) :
         Last.arg.a[i].t # "array" =>
           /\ Last.ret.a[i].t = "string"
           /\ \A j \in 1..Len(Last.arg.a) :
                Last.arg.a[j].t # "array" =>
                  Len(Last.ret.a[i].s) >= Len(Unpadded(Last.arg.a[j], Last).s)
           /\ \E j \in 1..Len(Last.arg.a) :
                /\ Last.arg.a[j].t # "array"
                /\ Len(Last.ret.a[i].s) = Len(Unpadded(Last.arg.a[j], Last).s)

\* a call of formatMoney or formatColumn
MoneyOrColumn == hist # <<>> /\ Last.fn \in {"formatMoney", "formatColumn"}

\* a structured format that supplies pos only
PosOnly(format) ==
  ~format.isString /\ format.pos.def /\ ~format.neg.def /\ ~format.zero.def

\* C4: with a structured format that supplies pos only, formatMoney and
\* formatColumn raise nothing, and formatMoney returns the pos template
\* filled in for positive, negative and zero amounts alike
C4_NegAndZeroDefaultToPos ==
  (MoneyOrColumn /\ PosOnly(Merged(Last).format)) =>
    /\ Last.ret.t # "TypeError"
    /\ IsScalarCall(Last, "formatMoney") =>
         Last.ret = ApplyFormat(Merged(Last).format.pos, Last.arg.n, Merged(Last))

\* C5: with a single-string format that lacks %v, formatMoney and
\* formatColumn raise nothing and return a string (a list of strings)
C5_MalformedTemplateDoesNotRaise ==
  (/\ MoneyOrColumn
   /\ Merged(Last).format.isString
   /\ IndexOf(Merged(Last).format.str, PctV) < 0) =>
    /\ Last.ret.t # "TypeError"
    /\ IsScalarCall(Last, "formatMoney") => Last.ret.t = "string"

====
